---- MODULE Spec2Model ----
(***************************************************************************)
(* State-machine model of the two volleyball ingestion pipelines:          *)
(*   updateTVL.py   (source A, class TVLUpdater:       HTML pages)         *)
(*   updateTVPL.py  (source B, class TPVLLocalUpdater: embedded JSON)      *)
(* and of the PostgreSQL tables they write.                                *)
(*                                                                         *)
(* Conventions.  Python None / SQL NULL is the empty set and a present     *)
(* value x is {x}.  A text is a sequence of characters, each character a   *)
(* one-token string; the CJK characters of the status badge are written    *)
(* by the tokens "yi", "wan", "sai", "jin", "xing", "zhong".               *)
(***************************************************************************)
EXTENDS Integers, Sequences, FiniteSets, TLC

VARIABLES
  \* ---- the persisted store (PostgreSQL) ----
  tvl_matches,      \* table tvl_matches: a set of rows
  tvl_seq,          \* next value of the SERIAL sequence behind tvl_matches.id
  tpvl_teams,       \* table tpvl_teams: a set of rows
  tpvl_matches,     \* table tpvl_matches: a set of rows
  now,              \* the clock behind NOW() / datetime.now()
  \* ---- the running process ----
  prog,             \* which script runs: "TVL", "TPVL", "sink" (sink calls only), "parse"
  pc,               \* position inside run()
  connection,       \* self.connection: "None", "open", "closed"
  cursor,           \* self.cursor:     "None", "open", "closed"
  female_range,     \* self.female_range
  male_range,       \* self.male_range
  origin,           \* how the origin web site behaves during this run
  gender,           \* source A: the loop that is running
  match_id,         \* source A: loop variable
  soup,             \* source A: result of fetch_page for the current id
  total_success,    \* source A: counter
  total_failed,     \* source A: counter
  page,             \* source B: index 1..5 of the next fetch_schedule call
  all_matches,      \* source B: accumulated raw match objects
  all_squads,       \* source B: squads of the first page
  unique_matches,   \* source B: the deduplicated collection
  \* ---- observations of the run (what a test harness would record) ----
  requested,        \* source A: the (match_id, gender) of every request, in order
  sleeps,           \* source A: number of time.sleep(0.5) calls
  fetches,          \* number of HTTP requests of the run (both sources)
  opens,            \* number of connections opened
  closes,           \* number of close() calls that closed the connection
  creates,          \* number of create_tables executions
  writes,           \* the record writes attempted by the run, in order
  rollbacks,        \* number of connection.rollback() calls that were issued
  errlog,           \* the error messages printed by the program, in order
  response,         \* the HTTP exchange of the most recent request
  setup,            \* "pending", "connect_failed", "schema_failed" or "ready"
  \* ---- history of the sink calls ----
  lastCall,         \* the most recent sink call: operation, input, outcome
  prevCall,         \* the sink call before it
  before,           \* the tables as they were when the most recent sink call began
  lastInsert,       \* per (match_id, gender): data of the latest committed insert_match
  firstId,          \* per (match_id, gender): sequence value at the first insert
  \* ---- a parser called on its own ----
  arg,              \* the argument of the call: a soup or a raw match object
  returned          \* what the call returned: [of, raised, value], or None before

storeVars == <<tvl_matches, tvl_seq, tpvl_teams, tpvl_matches, now>>
histVars  == <<lastCall, prevCall, before, lastInsert, firstId>>
procVars  == <<prog, pc, connection, cursor, female_range, male_range, origin>>
aVars     == <<gender, match_id, soup, total_success, total_failed, requested, sleeps>>
bVars     == <<page, all_matches, all_squads, unique_matches>>
obsVars   == <<fetches, opens, closes, creates, writes, rollbacks, errlog,
               response, setup>>
fixedVars == <<prog, female_range, male_range, origin>>
connVars  == <<connection, cursor>>
callVars  == <<arg, returned>>
vars == <<storeVars, histVars, procVars, aVars, bVars, obsVars, callVars>>

(***************************************************************************)
(* Values                                                                  *)
(***************************************************************************)
None == {}
Some(x) == {x}
The(o) == CHOOSE x \in o : TRUE

\* s.strip() and friends work on these characters
Whitespace == {" ", "\n", "\t"}
DigitChars == <<"0", "1", "2", "3", "4", "5", "6", "7", "8", "9">>
Digits == {DigitChars[i] : i \in 1..10}
DigitVal(c) == (CHOOSE i \in 1..10 : DigitChars[i] = c) - 1

RECURSIVE LStrip(_)
LStrip(s) == IF s # <<>> /\ Head(s) \in Whitespace THEN LStrip(Tail(s)) ELSE s
RECURSIVE RStrip(_)
RStrip(s) ==
  IF s # <<>> /\ s[Len(s)] \in Whitespace THEN RStrip(SubSeq(s, 1, Len(s) - 1)) ELSE s
\* str.strip()
Strip(s) == RStrip(LStrip(s))

\* str.isdigit(): non-empty and every character a digit
IsDigit(s) == s # <<>> /\ \A i \in 1..Len(s) : s[i] \in Digits

RECURSIVE NatOf(_)
NatOf(s) == IF s = <<>> THEN 0 ELSE 10 * NatOf(SubSeq(s, 1, Len(s) - 1)) + DigitVal(s[Len(s)])

\* int(s): optional surrounding whitespace, optional sign, digits; None stands
\* for the ValueError
IntOf(s) ==
  LET t == Strip(s)
      signed == t # <<>> /\ Head(t) \in {"+", "-"}
      d == IF signed THEN Tail(t) ELSE t
  IN  IF ~IsDigit(d) THEN None
      ELSE IF signed /\ Head(t) = "-" THEN Some(0 - NatOf(d)) ELSE Some(NatOf(d))

\* pat in text
Contains(text, pat) ==
  \E i \in 1..(Len(text) - Len(pat) + 1) : SubSeq(text, i, i + Len(pat) - 1) = pat


(***************************************************************************)
(* Source A: extraction and normalisation (updateTVL.py)                   *)
(*                                                                         *)
(* A soup is the parsed page, as the selectors of the code see it:         *)
(*   [match_table, game_header, badge, big_home, big_away]                 *)
(* match_table is None or {[tbody |-> None or {rows}]}, a row is           *)
(*   [td |-> None or {text of the first td},                               *)
(*    q_home, q_away |-> 5 cells "#q{i}_home" / "#q{i}_away", each None    *)
(*    or {text}],                                                          *)
(* the other fields are None or {text of the tag}.                         *)
(***************************************************************************)
base_url_TVL == "https://tvl.ctvba.org.tw"

\* rows found by match_table.find("tbody").find_all("tr") and by
\* table.select("tbody tr")
TableRows(table) == IF table.tbody = None THEN <<>> ELSE The(table.tbody)

\* get_team_names: <<home_name, away_name>>, each None or {text}
get_team_names(sp) ==
  IF sp.match_table = None THEN <<None, None>>
  ELSE LET table == The(sp.match_table) IN
    IF table.tbody = None THEN <<None, None>>
    ELSE LET rows == The(table.tbody) IN
      IF Len(rows) < 2 THEN <<None, None>>
      \* rows[k].find("td") is None: AttributeError, caught by the except
      ELSE IF rows[1].td = None \/ rows[2].td = None THEN <<None, None>>
      ELSE <<Some(Strip(The(rows[1].td))), Some(Strip(The(rows[2].td)))>>

\* The pattern (\d{4}[-/]\d{2}[-/]\d{2})\s+(\d{2}:\d{2}) matched at position i
\* of text t with the time starting at position j
DatetimeMatchAt(t, i, j) ==
  /\ i >= 1 /\ j + 4 <= Len(t) /\ j > i + 10
  /\ \A k \in {0, 1, 2, 3, 5, 6, 8, 9} : t[i + k] \in Digits
  /\ t[i + 4] \in {"-", "/"} /\ t[i + 7] \in {"-", "/"}
  /\ \A k \in (i + 10)..(j - 1) : t[k] \in Whitespace
  /\ \A k \in {0, 1, 3, 4} : t[j + k] \in Digits
  /\ t[j + 2] = ":"

\* str.replace('/', '-')
ReplaceSlash(s) == [k \in 1..Len(s) |-> IF s[k] = "/" THEN "-" ELSE s[k]]

\* parse_datetime: <<date_str, time_str>>, each None or {text}; re.search
\* returns the leftmost match
parse_datetime(sp) ==
  IF sp.game_header = None THEN <<None, None>>
  ELSE LET text == The(sp.game_header)
           hits == {ij \in (1..Len(text)) \X (1..Len(text)) :
                      DatetimeMatchAt(text, ij[1], ij[2])}
       IN  IF hits = {} THEN <<None, None>>
           ELSE LET i == CHOOSE a \in {h[1] : h \in hits} :
                            \A b \in {h[1] : h \in hits} : a <= b
                    j == CHOOSE b \in 1..Len(text) : <<i, b>> \in hits
                IN  <<Some(ReplaceSlash(SubSeq(text, i, i + 9))),
                      Some(SubSeq(text, j, j + 4))>>

FinishedMark1 == <<"yi", "wan", "sai">>
FinishedMark2 == <<"wan", "sai">>
LiveMark1 == <<"jin", "xing", "zhong">>
LiveMark2 == <<"L", "I", "V", "E">>

\* the status part of parse_score_and_status
StatusOf(sp) ==
  IF sp.badge = None THEN "scheduled"
  ELSE LET status_text == Strip(The(sp.badge)) IN
    IF Contains(status_text, FinishedMark1) \/ Contains(status_text, FinishedMark2)
      THEN "finished"
    ELSE IF Contains(status_text, LiveMark1) \/ Contains(status_text, LiveMark2)
      THEN "live"
    ELSE "scheduled"

\* the big-score part of parse_score_and_status: <<home_score, away_score>>.
\* home_score is assigned before int() of the away text can raise, so a
\* parseable home text with an unparseable away text leaves home_score set.
BigScoreOf(sp) ==
  IF sp.big_home = None \/ sp.big_away = None THEN <<None, None>>
  ELSE LET h == IntOf(The(sp.big_home))
           a == IntOf(The(sp.big_away))
       IN  IF h = None THEN <<None, None>> ELSE <<h, a>>

\* ", ".join(parts)
RECURSIVE JoinComma(_)
JoinComma(parts) ==
  IF Len(parts) = 0 THEN <<>>
  ELSE IF Len(parts) = 1 THEN parts[1]
  ELSE parts[1] \o <<",", " ">> \o JoinComma(Tail(parts))

\* the set-score loop leaving at the first set it rejects (a break)
RECURSIVE SetScoresFrom_StopAtGap(_, _, _)
SetScoresFrom_StopAtGap(home_row, away_row, i) ==
  IF i > 5 THEN <<>>
  ELSE LET home_cell == home_row.q_home[i]
           away_cell == away_row.q_away[i]
       IN  IF home_cell = None \/ away_cell = None THEN <<>>
           ELSE LET home_set == Strip(The(home_cell))
                    away_set == Strip(The(away_cell))
                IN  IF IsDigit(home_set) /\ IsDigit(away_set)
                    THEN <<home_set \o <<"-">> \o away_set>>
                           \o SetScoresFrom_StopAtGap(home_row, away_row, i + 1)
                    ELSE <<>>

\* the set-score loop of parse_score_and_status, for i in lo..5
RECURSIVE SetScoresFrom(_, _, _)
SetScoresFrom(home_row, away_row, i) ==
  IF i > 5 THEN <<>>
  ELSE LET home_cell == home_row.q_home[i]
           away_cell == away_row.q_away[i]
           rest == SetScoresFrom(home_row, away_row, i + 1)
       IN  IF home_cell = None \/ away_cell = None THEN rest
           ELSE LET home_set == Strip(The(home_cell))
                    away_set == Strip(The(away_cell))
                IN  IF home_set # <<>> /\ away_set # <<>>
                       /\ IsDigit(home_set) /\ IsDigit(away_set)
                    THEN <<home_set \o <<"-">> \o away_set>> \o rest
                    ELSE rest

\* the set-score part of parse_score_and_status: None or {text}
SetScoresOf(sp) ==
  IF sp.match_table = None THEN None
  ELSE LET rows == TableRows(The(sp.match_table)) IN
    IF Len(rows) < 2 THEN None
    ELSE LET set_scores == SetScoresFrom(rows[1], rows[2], 1) IN
      IF set_scores = <<>> THEN None ELSE Some(JoinComma(set_scores))

\* parse_score_and_status: <<status, home_score, away_score, set_scores_str>>
parse_score_and_status(sp) ==
  <<StatusOf(sp), BigScoreOf(sp)[1], BigScoreOf(sp)[2], SetScoresOf(sp)>>

\* the url of a match page
UrlOf(mid, g) == <<base_url_TVL, IF g = "male" THEN "game" ELSE "wgame", mid>>

\* parse_match (source A): None or {the canonical record}
parse_match_TVL(mid, g, sp) ==
  LET names == get_team_names(sp) IN
  \* "if not home_name or not away_name": None and the empty string are falsy
  IF names[1] = None \/ names[2] = None
     \/ The(names[1]) = <<>> \/ The(names[2]) = <<>> THEN None
  ELSE LET dt == parse_datetime(sp)
           ss == parse_score_and_status(sp)
       IN  Some([match_id |-> mid, gender |-> g,
                 match_date |-> dt[1], match_time |-> dt[2],
                 home_name |-> The(names[1]), away_name |-> The(names[2]),
                 status |-> ss[1], home_score |-> ss[2], away_score |-> ss[3],
                 set_scores |-> ss[4], url |-> UrlOf(mid, g)])

(***************************************************************************)
(* Calendar arithmetic (datetime, PostgreSQL DATE)                         *)
(***************************************************************************)
IsLeap(y) == (y % 4 = 0 /\ y % 100 # 0) \/ y % 400 = 0
DaysInMonth(y, m) ==
  IF m = 2 THEN (IF IsLeap(y) THEN 29 ELSE 28)
  ELSE IF m \in {4, 6, 9, 11} THEN 30 ELSE 31

\* days since 1970-01-01 of a civil date
DaysFromCivil(y, m, d) ==
  LET yy == IF m <= 2 THEN y - 1 ELSE y
      era == yy \div 400
      yoe == yy - era * 400
      mp == IF m > 2 THEN m - 3 ELSE m + 9
      doy == (153 * mp + 2) \div 5 + d - 1
      doe == yoe * 365 + yoe \div 4 - yoe \div 100 + doy
  IN  era * 146097 + doe - 719468

\* datetime.weekday(): Monday is 0; 1970-01-01 was a Thursday
Weekday(y, m, d) == (DaysFromCivil(y, m, d) + 3) % 7

\* the cast of a 'YYYY-MM-DD' literal to DATE succeeds
IsValidDate(text) ==
  LET y == NatOf(SubSeq(text, 1, 4))
      m == NatOf(SubSeq(text, 6, 7))
      d == NatOf(SubSeq(text, 9, 10))
  IN  y >= 1 /\ m \in 1..12 /\ d \in 1..DaysInMonth(y, m)

(***************************************************************************)
(* Source B: normalisation of one raw match object (updateTVPL.py)         *)
(*                                                                         *)
(* A raw match object is a record of the JSON keys it has; a JSON null is  *)
(* None.  matchedAt is None for a string datetime.fromisoformat rejects    *)
(* and {[year, month, day, hour, minute]} (UTC) otherwise.                 *)
(***************************************************************************)
WeekdayNames == <<"yi", "er", "san", "si", "wu", "liu", "ri">>
TaipeiOffsetHours == 8

\* dt + timedelta(hours=8)
PlusHours(dt, h) ==
  LET hh == dt.hour + h
      over == hh >= 24
      d1 == IF over THEN dt.day + 1 ELSE dt.day
      mover == d1 > DaysInMonth(dt.year, dt.month)
      m1 == IF mover THEN dt.month + 1 ELSE dt.month
      yover == m1 > 12
  IN  [year |-> IF yover THEN dt.year + 1 ELSE dt.year,
       month |-> IF yover THEN 1 ELSE m1,
       day |-> IF mover THEN 1 ELSE d1,
       hour |-> IF over THEN hh - 24 ELSE hh,
       minute |-> dt.minute]

MatchKeys == {"id", "code", "matchedAt", "homeSquadId", "awaySquadId", "venue"}

\* parse_match raises: a KeyError for a missing key, a ValueError for a
\* malformed matchedAt
ParseMatchRaises(match_data) ==
  \/ ~(MatchKeys \subseteq DOMAIN match_data)
  \/ match_data.matchedAt = None

\* the loop over squadMatchResults: <<home_score, away_score>> after the
\* entries of results, starting from acc
RECURSIVE ScanResults(_, _, _)
ScanResults(results, match_data, acc) ==
  IF results = <<>> THEN acc
  ELSE LET result == Head(results) IN
    ScanResults(Tail(results), match_data,
      IF result.squadId = match_data.homeSquadId THEN <<result.wonRounds, acc[2]>>
      ELSE IF result.squadId = match_data.awaySquadId THEN <<acc[1], result.wonRounds>>
      ELSE acc)

\* the test "'squadMatchResults' in match_data and it is not None": an empty
\* list passes
HasResults_KeyPresent(match_data) ==
  /\ "squadMatchResults" \in DOMAIN match_data
  /\ match_data.squadMatchResults # None

\* match_data.get('squadMatchResults') is truthy
HasResults(match_data) ==
  /\ "squadMatchResults" \in DOMAIN match_data
  /\ match_data.squadMatchResults # None
  /\ The(match_data.squadMatchResults) # <<>>

\* parse_match (source B), for an object it does not raise on: the value tuple
\* in the column order of the INSERT; t is datetime.now()
parse_match_TPVL(match_data, t) ==
  LET taipei_dt == PlusHours(The(match_data.matchedAt), TaipeiOffsetHours)
      completed == HasResults(match_data)
      scores == IF completed
                THEN ScanResults(The(match_data.squadMatchResults), match_data,
                                 <<None, None>>)
                ELSE <<None, None>>
  IN  << match_data.id,
         match_data.code,
         <<taipei_dt.year, taipei_dt.month, taipei_dt.day>>,
         <<taipei_dt.hour, taipei_dt.minute>>,
         WeekdayNames[Weekday(taipei_dt.year, taipei_dt.month, taipei_dt.day) + 1],
         match_data.homeSquadId,
         match_data.awaySquadId,
         match_data.venue,
         IF completed THEN "completed" ELSE "upcoming",
         scores[1],
         scores[2],
         t >>

TeamKeys == {"id", "name", "altName", "logoUrl"}

(***************************************************************************)
(* The store: what the SQL statements of the two sinks do                  *)
(***************************************************************************)
\* InsertMatchSQL with the conflict target (match_id) instead of
\* (match_id, gender)
InsertMatchSQL_ByIdOnly(table, seq, data, t) ==
  LET conflict == {r \in table : r.match_id = data.match_id}
      inserted == [id |-> seq,
                   match_id |-> data.match_id, gender |-> data.gender,
                   match_date |-> data.match_date, match_time |-> data.match_time,
                   home_team_name |-> data.home_name, away_team_name |-> data.away_name,
                   status |-> data.status,
                   home_score |-> data.home_score, away_score |-> data.away_score,
                   set_scores |-> data.set_scores, url |-> data.url,
                   scraped_at |-> t]
      updated(r) == [r EXCEPT !.match_date = data.match_date,
                              !.match_time = data.match_time,
                              !.home_team_name = data.home_name,
                              !.away_team_name = data.away_name,
                              !.status = data.status,
                              !.home_score = data.home_score,
                              !.away_score = data.away_score,
                              !.set_scores = data.set_scores,
                              !.scraped_at = t]
  IN  IF data.match_date # None /\ ~IsValidDate(The(data.match_date))
      THEN [ok |-> FALSE, table |-> table, seq |-> seq]
      ELSE IF conflict = {}
        THEN [ok |-> TRUE, table |-> table \cup {inserted}, seq |-> seq + 1]
        ELSE [ok |-> TRUE,
              table |-> (table \ conflict) \cup {updated(r) : r \in conflict},
              seq |-> seq + 1]

\* ApplyMatches as a plain INSERT into a table without its primary key: a row
\* whose id is already there is added again
RECURSIVE ApplyMatches_NoConflict(_, _, _)
ApplyMatches_NoConflict(table, values, t) ==
  IF values = <<>> THEN table
  ELSE LET v == Head(values)
           inserted == [id |-> v[1], code |-> v[2], match_date |-> v[3],
                        match_time |-> v[4], weekday |-> v[5],
                        home_team_id |-> v[6], away_team_id |-> v[7],
                        venue |-> v[8], status |-> v[9],
                        home_score |-> v[10], away_score |-> v[11],
                        created_at |-> t, updated_at |-> v[12]]
       IN  ApplyMatches_NoConflict(table \cup {inserted}, Tail(values), t)

\* INSERT INTO tvl_matches ... ON CONFLICT (match_id, gender) DO UPDATE ...
\* executed at time t with the sequence at seq.  The statement fails when the
\* date literal is no date (match_date DATE) or the gender CHECK is violated;
\* the id default nextval() is evaluated for the proposed row even when the
\* row then conflicts.
InsertMatchSQL(table, seq, data, t) ==
  LET conflict == {r \in table : r.match_id = data.match_id /\ r.gender = data.gender}
      valid == /\ data.gender \in {"male", "female"}
               /\ data.match_date = None \/ IsValidDate(The(data.match_date))
      inserted == [id |-> seq,
                   match_id |-> data.match_id, gender |-> data.gender,
                   match_date |-> data.match_date, match_time |-> data.match_time,
                   home_team_name |-> data.home_name, away_team_name |-> data.away_name,
                   status |-> data.status,
                   home_score |-> data.home_score, away_score |-> data.away_score,
                   set_scores |-> data.set_scores, url |-> data.url,
                   scraped_at |-> t]
      updated(r) == [r EXCEPT !.match_date = data.match_date,
                              !.match_time = data.match_time,
                              !.home_team_name = data.home_name,
                              !.away_team_name = data.away_name,
                              !.status = data.status,
                              !.home_score = data.home_score,
                              !.away_score = data.away_score,
                              !.set_scores = data.set_scores,
                              !.scraped_at = t]
  IN  IF ~valid THEN [ok |-> FALSE, table |-> table, seq |-> seq]
      ELSE IF conflict = {}
        THEN [ok |-> TRUE, table |-> table \cup {inserted}, seq |-> seq + 1]
        ELSE [ok |-> TRUE,
              table |-> (table \ conflict) \cup {updated(r) : r \in conflict},
              seq |-> seq + 1]

\* the ids of a batch of value tuples are pairwise different
DistinctIds(values) ==
  \A i, j \in 1..Len(values) : i # j => values[i][1] # values[j][1]

\* INSERT INTO tpvl_teams ... VALUES %s ON CONFLICT (id) DO UPDATE ... for the
\* value tuples <<id, name, name_en, logo_url, updated_at>>, executed at time t.
\* The statement fails on a NULL name (name TEXT NOT NULL) and when two tuples
\* have the same id (ON CONFLICT DO UPDATE cannot affect a row a second time).
\* execute_values sends nothing for an empty list.
RECURSIVE ApplyTeams(_, _, _)
ApplyTeams(table, values, t) ==
  IF values = <<>> THEN table
  ELSE LET v == Head(values)
           conflict == {r \in table : r.id = v[1]}
           inserted == [id |-> v[1], name |-> v[2], name_en |-> v[3], logo_url |-> v[4],
                        created_at |-> t, updated_at |-> v[5]]
           updated(r) == [r EXCEPT !.name = v[2], !.name_en = v[3], !.logo_url = v[4],
                                   !.updated_at = t]
       IN  ApplyTeams(IF conflict = {} THEN table \cup {inserted}
                      ELSE (table \ conflict) \cup {updated(r) : r \in conflict},
                      Tail(values), t)

UpsertTeamsSQL(table, values, t) ==
  LET valid == /\ \A i \in 1..Len(values) : values[i][2] # None
               /\ DistinctIds(values)
  IN  IF ~valid THEN [ok |-> FALSE, table |-> table]
      ELSE [ok |-> TRUE, table |-> ApplyTeams(table, values, t)]

\* INSERT INTO tpvl_matches ... VALUES %s ON CONFLICT (id) DO UPDATE ... for the
\* value tuples parse_match builds, executed at time t.  The statement fails on
\* a NULL code or venue (NOT NULL), on a home_team_id / away_team_id that is
\* not NULL and not the id of a row of tpvl_teams (REFERENCES tpvl_teams(id)),
\* and when two tuples have the same id.
RECURSIVE ApplyMatches(_, _, _)
ApplyMatches(table, values, t) ==
  IF values = <<>> THEN table
  ELSE LET v == Head(values)
           conflict == {r \in table : r.id = v[1]}
           inserted == [id |-> v[1], code |-> v[2], match_date |-> v[3],
                        match_time |-> v[4], weekday |-> v[5],
                        home_team_id |-> v[6], away_team_id |-> v[7],
                        venue |-> v[8], status |-> v[9],
                        home_score |-> v[10], away_score |-> v[11],
                        created_at |-> t, updated_at |-> v[12]]
           updated(r) == [r EXCEPT !.code = v[2], !.match_date = v[3],
                                   !.match_time = v[4], !.weekday = v[5],
                                   !.home_team_id = v[6], !.away_team_id = v[7],
                                   !.venue = v[8], !.status = v[9],
                                   !.home_score = v[10], !.away_score = v[11],
                                   !.updated_at = t]
       IN  ApplyMatches(IF conflict = {} THEN table \cup {inserted}
                        ELSE (table \ conflict) \cup {updated(r) : r \in conflict},
                        Tail(values), t)

UpsertMatchesSQL(teams, table, values, t) ==
  LET team_ids == {Some(r.id) : r \in teams} \cup {None}
      valid == /\ \A i \in 1..Len(values) :
                    /\ values[i][2] # None /\ values[i][8] # None
                    /\ values[i][6] \in team_ids /\ values[i][7] \in team_ids
               /\ DistinctIds(values)
  IN  IF ~valid THEN [ok |-> FALSE, table |-> table]
      ELSE [ok |-> TRUE, table |-> ApplyMatches(table, values, t)]

\* the columns of a row that are not audit timestamps
NoTsTvl(r) == [id |-> r.id, match_id |-> r.match_id, gender |-> r.gender,
               match_date |-> r.match_date, match_time |-> r.match_time,
               home_team_name |-> r.home_team_name, away_team_name |-> r.away_team_name,
               status |-> r.status, home_score |-> r.home_score,
               away_score |-> r.away_score, set_scores |-> r.set_scores, url |-> r.url]
NoTsTeam(r) == [id |-> r.id, name |-> r.name, name_en |-> r.name_en, logo_url |-> r.logo_url]
NoTsMatch(r) == [id |-> r.id, code |-> r.code, match_date |-> r.match_date,
                 match_time |-> r.match_time, weekday |-> r.weekday,
                 home_team_id |-> r.home_team_id, away_team_id |-> r.away_team_id,
                 venue |-> r.venue, status |-> r.status,
                 home_score |-> r.home_score, away_score |-> r.away_score]

(***************************************************************************)
(* The sinks, as the Python methods run them.  fault is what the database  *)
(* does to the statement apart from its constraints: "none", "statement"   *)
(* (the statement is cancelled or refused, the connection stays usable) or *)
(* "conn_lost" (the connection drops; rollback() on it raises).            *)
(* Each result says what the tables are afterwards, whether the call       *)
(* committed, whether an exception left the method (raised), whether       *)
(* connection.rollback() was called and what was printed.                  *)
(***************************************************************************)
Faults == {"none", "statement", "conn_lost"}

\* TVLUpdater.insert_match: execute, commit; nothing is caught
insert_match(data, fault) ==
  LET r == IF fault = "none" THEN InsertMatchSQL(tvl_matches, tvl_seq, data, now)
           ELSE [ok |-> FALSE, table |-> tvl_matches, seq |-> tvl_seq]
  IN  [table |-> r.table, seq |-> r.seq, committed |-> r.ok, raised |-> ~r.ok,
       rollback |-> FALSE, log |-> <<>>, fault |-> fault]

\* TPVLLocalUpdater.upsert_teams: the value list is built outside the try (a
\* team without one of its keys raises KeyError); execute_values and commit
\* are inside it, and the except prints and rolls back
upsert_teams(teams_data, fault) ==
  IF \E i \in 1..Len(teams_data) : ~(TeamKeys \subseteq DOMAIN teams_data[i])
  THEN [table |-> tpvl_teams, committed |-> FALSE, raised |-> TRUE,
        rollback |-> FALSE, log |-> <<>>, fault |-> fault]
  ELSE LET values == [i \in 1..Len(teams_data) |->
                        <<teams_data[i].id, teams_data[i].name, teams_data[i].altName,
                          teams_data[i].logoUrl, now>>]
           r == IF fault = "none" THEN UpsertTeamsSQL(tpvl_teams, values, now)
                ELSE [ok |-> FALSE, table |-> tpvl_teams]
       IN  IF r.ok
           THEN [table |-> r.table, committed |-> TRUE, raised |-> FALSE,
                 rollback |-> FALSE, log |-> <<>>, fault |-> fault]
           ELSE [table |-> tpvl_teams, committed |-> FALSE,
                 raised |-> (fault = "conn_lost"),
                 rollback |-> TRUE, log |-> <<"upsert_teams failed">>, fault |-> fault]

\* TPVLLocalUpdater.upsert_matches: parse_match runs outside the try
upsert_matches(matches_data, fault) ==
  IF \E i \in 1..Len(matches_data) : ParseMatchRaises(matches_data[i])
  THEN [table |-> tpvl_matches, committed |-> FALSE, raised |-> TRUE,
        rollback |-> FALSE, log |-> <<>>, fault |-> fault]
  ELSE LET values == [i \in 1..Len(matches_data) |->
                        parse_match_TPVL(matches_data[i], now)]
           r == IF fault = "none"
                THEN UpsertMatchesSQL(tpvl_teams, tpvl_matches, values, now)
                ELSE [ok |-> FALSE, table |-> tpvl_matches]
       IN  IF r.ok
           THEN [table |-> r.table, committed |-> TRUE, raised |-> FALSE,
                 rollback |-> FALSE, log |-> <<>>, fault |-> fault]
           ELSE [table |-> tpvl_matches, committed |-> FALSE,
                 raised |-> (fault = "conn_lost"),
                 rollback |-> TRUE, log |-> <<"upsert_matches failed">>, fault |-> fault]

\* what every sink call leaves in the history
RecordCall(op, input, res) ==
  /\ now' = now + 1
  /\ prevCall' = lastCall
  /\ lastCall' = [op |-> op, input |-> input, committed |-> res.committed,
                  raised |-> res.raised, rollback |-> res.rollback,
                  logged |-> res.log # <<>>, fault |-> res.fault]
  /\ before' = [tvl |-> tvl_matches, teams |-> tpvl_teams, matches |-> tpvl_matches]

\* the effect of insert_match(data) on the store and the history
DoInsertMatch(data, res) ==
  LET key == <<data.match_id, data.gender>> IN
  /\ tvl_matches' = res.table
  /\ tvl_seq' = res.seq
  /\ UNCHANGED <<tpvl_teams, tpvl_matches>>
  /\ RecordCall("insert_match", data, res)
  /\ lastInsert' = IF res.committed
                   THEN [k \in DOMAIN lastInsert \cup {key} |->
                           IF k = key THEN data ELSE lastInsert[k]]
                   ELSE lastInsert
  /\ firstId' = IF res.committed /\ key \notin DOMAIN firstId
                THEN [k \in DOMAIN firstId \cup {key} |->
                        IF k = key THEN tvl_seq ELSE firstId[k]]
                ELSE firstId

\* the effect of upsert_teams(teams_data) on the store and the history
DoUpsertTeams(teams_data, res) ==
  /\ tpvl_teams' = res.table
  /\ UNCHANGED <<tvl_matches, tvl_seq, tpvl_matches, lastInsert, firstId>>
  /\ RecordCall("upsert_teams", teams_data, res)

\* the effect of upsert_matches(matches_data) on the store and the history
DoUpsertMatches(matches_data, res) ==
  /\ tpvl_matches' = res.table
  /\ UNCHANGED <<tvl_matches, tvl_seq, tpvl_teams, lastInsert, firstId>>
  /\ RecordCall("upsert_matches", matches_data, res)

(***************************************************************************)
(* Inputs: the pages, payloads and batches the model draws from            *)
(***************************************************************************)
NoCells == <<None, None, None, None, None>>
Row(name, qh, qa) == [td |-> Some(name), q_home |-> qh, q_away |-> qa]

\* a finished match: both big scores, badge "yi wan sai", four sets played and
\* an empty fifth-set cell
SoupFinished ==
  [match_table |-> Some([tbody |-> Some(<<
      Row(<<"X">>, <<Some(<<"2", "5">>), Some(<<"2", "5">>), Some(<<"2", "1">>), Some(<<"2", "5">>), Some(<<>>)>>, NoCells),
      Row(<<"Y">>, NoCells, <<Some(<<"2", "3">>), Some(<<"2", "0">>), Some(<<"2", "5">>), Some(<<"1", "8">>), Some(<<>>)>>) >>)]),
   game_header |-> Some(<<" ", "2", "0", "2", "4", "-", "0", "1", "-", "0", "1", " ", "1", "8", ":", "0", "0", " ">>),
   badge |-> Some(<<" ", "yi", "wan", "sai", " ">>),
   big_home |-> Some(<<"3">>), big_away |-> Some(<<"1">>)]

\* a match still to be played: names with surrounding blanks, a date written
\* with slashes, no badge, no scores
SoupScheduled ==
  [match_table |-> Some([tbody |-> Some(<<
      Row(<<" ", "X", " ">>, NoCells, NoCells),
      Row(<<"Z">>, NoCells, NoCells) >>)]),
   game_header |-> Some(<<"2", "0", "2", "4", "/", "0", "2", "/", "0", "3", " ", " ", "1", "9", ":", "3", "0">>),
   badge |-> None, big_home |-> None, big_away |-> None]

\* a page whose header shows a date that is no calendar date
SoupBadDate ==
  [match_table |-> Some([tbody |-> Some(<<
      Row(<<"X">>, NoCells, NoCells),
      Row(<<"Y">>, NoCells, NoCells) >>)]),
   game_header |-> Some(<<"x", "2", "0", "2", "4", "-", "1", "3", "-", "4", "5", " ", "1", "0", ":", "0", "0">>),
   badge |-> Some(<<"L", "I", "V", "E">>),
   big_home |-> Some(<<"1">>), big_away |-> Some(<<"-">>)]

\* a page without the results table
SoupNoTable ==
  [match_table |-> None, game_header |-> None, badge |-> None,
   big_home |-> None, big_away |-> None]

Pages == {SoupFinished, SoupScheduled, SoupBadDate, SoupNoTable}

\* the (match_id, gender) pairs the sink calls are made for: 264 lies in both
\* id ranges
SinkKeys == {<<264, "female">>, <<264, "male">>}

\* the canonical records of source A: what parse_match returns for the pages
ARecords ==
  UNION {parse_match_TVL(k[1], k[2], sp) : k \in SinkKeys, sp \in Pages}

\* ---- source B ----
T10  == [id |-> 10, name |-> Some("Falcons"), altName |-> Some("FAL"), logoUrl |-> None]
T10b == [id |-> 10, name |-> Some("Falcons2"), altName |-> Some("FAL"), logoUrl |-> Some("u")]
T11  == [id |-> 11, name |-> Some("Bears"), altName |-> None, logoUrl |-> None]
\* a squad without a name, and one without the altName key
TNull == [id |-> 12, name |-> None, altName |-> None, logoUrl |-> None]
TNoKey == [id |-> 13, name |-> Some("Owls"), logoUrl |-> None]

At(y, m, d, hh, mm) == Some([year |-> y, month |-> m, day |-> d, hour |-> hh, minute |-> mm])
Res(squad, won) == [squadId |-> Some(squad), wonRounds |-> Some(won)]

\* match 1 before and after it was played, a match without the
\* squadMatchResults key,
\* a match without venue, a match whose matchedAt is malformed
M1a == [id |-> 1, code |-> Some("G1"), matchedAt |-> At(2024, 1, 1, 10, 0),
        homeSquadId |-> Some(10), awaySquadId |-> Some(11), venue |-> Some("V"),
        squadMatchResults |-> Some(<<>>)]
M1b == [id |-> 1, code |-> Some("G1"), matchedAt |-> At(2024, 2, 29, 18, 30),
        homeSquadId |-> Some(10), awaySquadId |-> Some(11), venue |-> Some("W"),
        squadMatchResults |-> Some(<<Res(11, 1), Res(10, 3), Res(99, 7)>>)]
M2  == [id |-> 2, code |-> Some("G2"), matchedAt |-> At(2024, 12, 31, 16, 0),
        homeSquadId |-> Some(11), awaySquadId |-> Some(10), venue |-> Some("V")]
M3  == [id |-> 3, code |-> Some("G3"), matchedAt |-> At(2024, 3, 3, 3, 0),
        homeSquadId |-> Some(10), awaySquadId |-> None, venue |-> None]
M4  == [id |-> 4, code |-> Some("G4"), matchedAt |-> None,
        homeSquadId |-> Some(10), awaySquadId |-> Some(11), venue |-> Some("V")]

\* the batches the sink calls are made with: an insert, an update, two rows,
\* the same id twice, a row that violates a constraint after one that does
\* not, a row the value list cannot be built from, the empty batch
TeamBatches ==
  {<<T10>>, <<T10b>>, <<T10, T11>>, <<T10, T10b>>, <<T11, TNull>>, <<T11, TNoKey>>, <<>>}
MatchBatches ==
  {<<M1a>>, <<M1b>>, <<M1a, M2>>, <<M1a, M1b>>, <<M1a, M3>>, <<M1a, M4>>, <<>>}

(***************************************************************************)
(* Initial states                                                          *)
(***************************************************************************)
MaxSinkCalls == 3

NoCall == [op |-> "none", input |-> <<>>, committed |-> FALSE, raised |-> FALSE,
           rollback |-> FALSE, logged |-> FALSE, fault |-> "none"]

\* an empty database
InitStore ==
  /\ tvl_matches = {} /\ tvl_seq = 1
  /\ tpvl_teams = {} /\ tpvl_matches = {}
  /\ now = 0

InitHist ==
  /\ lastCall = NoCall /\ prevCall = NoCall
  /\ before = [tvl |-> {}, teams |-> {}, matches |-> {}]
  /\ lastInsert = <<>> /\ firstId = <<>>

InitObs ==
  /\ fetches = 0 /\ opens = 0 /\ closes = 0 /\ creates = 0
  /\ writes = <<>> /\ rollbacks = 0 /\ errlog = <<>>
  /\ response = [raises |-> FALSE] /\ setup = "pending"

\* no parser is called on its own
NoParserCall == arg = None /\ returned = None

\* TVLUpdater.__init__ / TPVLLocalUpdater.__init__ and the locals of run()
InitObject(fr, mr) ==
  /\ connection = "None" /\ cursor = "None"
  /\ female_range = fr /\ male_range = mr
  /\ gender = "female" /\ match_id = fr[1] /\ soup = None
  /\ total_success = 0 /\ total_failed = 0
  /\ requested = <<>> /\ sleeps = 0
  /\ page = 1 /\ all_matches = <<>> /\ all_squads = <<>> /\ unique_matches = <<>>

(***************************************************************************)
(* SpecSink: the three sink methods called in any order on an open         *)
(* connection, with any of the inputs above                                *)
(***************************************************************************)
male_range_TVL == <<264, 326>>
female_range_TVL == <<228, 278>>

InitSink ==
  /\ InitStore /\ InitHist /\ InitObs
  /\ InitObject(female_range_TVL, male_range_TVL)
  /\ prog = "sink" /\ pc = "sink" /\ origin = "none"
  /\ NoParserCall

runVars == <<procVars, aVars, bVars, obsVars, callVars>>

InsertMatchCall ==
  /\ prog = "sink" /\ now < MaxSinkCalls
  /\ \E data \in ARecords, fault \in Faults :
       DoInsertMatch(data, insert_match(data, fault))
  /\ UNCHANGED runVars

UpsertTeamsCall ==
  /\ prog = "sink" /\ now < MaxSinkCalls
  /\ \E teams_data \in TeamBatches, fault \in Faults :
       DoUpsertTeams(teams_data, upsert_teams(teams_data, fault))
  /\ UNCHANGED runVars

UpsertMatchesCall ==
  /\ prog = "sink" /\ now < MaxSinkCalls
  /\ \E matches_data \in MatchBatches, fault \in Faults :
       DoUpsertMatches(matches_data, upsert_matches(matches_data, fault))
  /\ UNCHANGED runVars

NextSink == InsertMatchCall \/ UpsertTeamsCall \/ UpsertMatchesCall

SpecSink == InitSink /\ [][NextSink]_vars

(***************************************************************************)
(* Claims about the sinks (checked under SpecSink)                         *)
(***************************************************************************)
KeyOf(r) == <<r.match_id, r.gender>>

\* C1: tvl_matches holds at most one row per (match_id, gender); the row's
\* date, time, team names, status, scores and set scores are those of the
\* most recent insert_match call that committed for that pair; its id is the
\* one the sequence gave at the first insert; no row ever disappears.
C1_StoreInvariant ==
  /\ \A r1, r2 \in tvl_matches : KeyOf(r1) = KeyOf(r2) => r1 = r2
  /\ {KeyOf(r) : r \in tvl_matches} = DOMAIN lastInsert
  /\ \A r \in tvl_matches :
       LET data == lastInsert[KeyOf(r)] IN
       /\ r.match_date = data.match_date /\ r.match_time = data.match_time
       /\ r.home_team_name = data.home_name /\ r.away_team_name = data.away_name
       /\ r.status = data.status
       /\ r.home_score = data.home_score /\ r.away_score = data.away_score
       /\ r.set_scores = data.set_scores
       /\ r.id = firstId[KeyOf(r)]

\* C1 witness: a pair was inserted, the other pair with the same match_id was
\* inserted, and the first pair was inserted again with other data
C1_Witness ==
  /\ lastCall.op = "insert_match" /\ lastCall.committed
  /\ prevCall.op = "insert_match" /\ prevCall.committed
  /\ prevCall.input.gender # lastCall.input.gender
  /\ Cardinality(tvl_matches) = 2
  /\ \E r \in before.tvl :
       /\ KeyOf(r) = <<lastCall.input.match_id, lastCall.input.gender>>
       /\ r.status # lastCall.input.status
       /\ r.id = 1

Tables == [tvl |-> tvl_matches, teams |-> tpvl_teams, matches |-> tpvl_matches]

\* the row count and the non-timestamp columns of the three tables
NoTs(db) ==
  [tvl |-> {NoTsTvl(r) : r \in db.tvl}, n_tvl |-> Cardinality(db.tvl),
   teams |-> {NoTsTeam(r) : r \in db.teams}, n_teams |-> Cardinality(db.teams),
   matches |-> {NoTsMatch(r) : r \in db.matches}, n_matches |-> Cardinality(db.matches)]

RepeatedCall ==
  /\ lastCall.op # "none" /\ lastCall.op = prevCall.op
  /\ lastCall.input = prevCall.input
  /\ prevCall.committed

\* C2: when a sink call that committed is followed by the same call with the
\* identical input, the second call leaves the row counts and every
\* non-timestamp column as the first call left them.
C2_Idempotent == RepeatedCall => NoTs(Tables) = NoTs(before)

\* C2 witness: upsert_matches committed twice in a row with the same batch of
\* two matches, and only timestamps changed
C2_Witness ==
  /\ RepeatedCall /\ lastCall.committed
  /\ lastCall.op = "upsert_matches" /\ Len(lastCall.input) = 2
  /\ Tables # before

\* the rows of a committed batch are in the table with the batch's values
BatchInTable ==
  /\ lastCall.op = "upsert_teams" =>
       \A i \in 1..Len(lastCall.input) :
         \E r \in tpvl_teams :
           /\ r.id = lastCall.input[i].id /\ r.name = lastCall.input[i].name
           /\ r.name_en = lastCall.input[i].altName
           /\ r.logo_url = lastCall.input[i].logoUrl
  /\ lastCall.op = "upsert_matches" =>
       \A i \in 1..Len(lastCall.input) :
         \E r \in tpvl_matches :
           /\ r.id = lastCall.input[i].id /\ r.code = lastCall.input[i].code
           /\ r.venue = lastCall.input[i].venue

\* the value list of the batch can be built (no KeyError, no ValueError)
WellFormedBatch ==
  /\ lastCall.op = "upsert_teams" =>
       \A i \in 1..Len(lastCall.input) : TeamKeys \subseteq DOMAIN lastCall.input[i]
  /\ lastCall.op = "upsert_matches" =>
       \A i \in 1..Len(lastCall.input) : ~ParseMatchRaises(lastCall.input[i])

\* C4 (as claimed): after upsert_teams / upsert_matches the store holds every
\* row of the batch or is unchanged, and when a row violates a constraint the
\* batch is rolled back and the error reaches the caller.
C4_AtomicAndSurfaced ==
  lastCall.op \in {"upsert_teams", "upsert_matches"} =>
    /\ lastCall.committed => BatchInTable
    /\ ~lastCall.committed => Tables = before
    /\ (~lastCall.committed /\ lastCall.fault = "none" /\ WellFormedBatch) =>
         (lastCall.rollback /\ lastCall.raised)

(***************************************************************************)
(* Fetching                                                                *)
(***************************************************************************)
MinContentLen == 10000

\* An HTTP exchange of source A: requests.get raises, or answers with a
\* status code, a body of content_len bytes and the soup the body parses to.
AResponse(raises, status_code, content_len, sp) ==
  [raises |-> raises, status_code |-> status_code, content_len |-> content_len, sp |-> sp]

\* fetch_page without the check of the body size
fetch_page_NoSizeCheck(r) ==
  IF r.raises THEN None
  ELSE IF r.status_code # 200 THEN None
  ELSE Some(r.sp)

\* TVLUpdater.fetch_page: None or {soup}
fetch_page(r) ==
  IF r.raises THEN None
  ELSE IF r.status_code # 200 THEN None
  ELSE IF r.content_len < MinContentLen THEN None
  ELSE Some(r.sp)

\* what fetch_page prints (debug is False: only the exception is printed)
fetch_page_log(r) == IF r.raises THEN <<"fetch_page failed">> ELSE <<>>

AFailures == {AResponse(TRUE, 0, 0, SoupNoTable),
              AResponse(FALSE, 404, 20000, SoupNoTable),
              AResponse(FALSE, 200, 9999, SoupFinished)}
AGood(sp) == AResponse(FALSE, 200, 10000, sp)

\* The answers the origin may give to the request for (mid, g).  "any": every
\* answer at every request.  The other behaviours fix the answer by the id:
\* "down" (every request fails), "up" (every page is a finished match),
\* "mixed" (by id modulo 3: a match to be played, a page without table, 404),
\* "bad_date" (every page shows an impossible date).
OriginResponses(org, mid, g) ==
  CASE org = "any" -> AFailures \cup {AGood(sp) : sp \in Pages}
    [] org = "down" -> AFailures
    [] org = "up" -> {AGood(SoupFinished)}
    [] org = "mixed" -> IF mid % 3 = 0 THEN {AGood(SoupScheduled)}
                        ELSE IF mid % 3 = 1 THEN {AGood(SoupNoTable)}
                        ELSE {AResponse(FALSE, 404, 20000, SoupNoTable)}
    [] org = "bad_date" -> {AGood(SoupBadDate)}
    [] OTHER -> {}

\* ---- source B ----
\* dict.get(key, default)
Get(d, key, default) == IF key \in DOMAIN d THEN d[key] ELSE default

\* An HTTP exchange of source B: requests.get / raise_for_status raises, or
\* the page carries no __NEXT_DATA__ script (script = None), or a script whose
\* body json.loads rejects (valid = FALSE) or parses to value.
BResponse(raises, script) == [raises |-> raises, script |-> script]

\* TPVLLocalUpdater.extract_json_data: [raises |-> TRUE] for the json error,
\* else the value, None when the pattern does not match
extract_json_data(html) ==
  IF html.script = None THEN [raises |-> FALSE, value |-> None]
  ELSE IF ~The(html.script).valid THEN [raises |-> TRUE, value |-> None]
  ELSE [raises |-> FALSE, value |-> Some(The(html.script).value)]

\* TPVLLocalUpdater.fetch_schedule: what the caller receives.
\*   [tag |-> "None"]  the except branch returned None
\*   [tag |-> "pair"]  "return None, None": the tuple (None, None)
\*   [tag |-> "dict", results, futures, squads]
fetch_schedule(r) ==
  IF r.raises THEN [tag |-> "None"]
  ELSE LET x == extract_json_data(r) IN
    IF x.raises THEN [tag |-> "None"]
    \* "if not data": no match, or an empty object
    ELSE IF x.value = None \/ DOMAIN The(x.value) = {} THEN [tag |-> "pair"]
    ELSE LET data == The(x.value) IN
      IF "props" \notin DOMAIN data \/ "pageProps" \notin DOMAIN data.props
      THEN [tag |-> "None"]
      ELSE LET page_props == data.props.pageProps IN
        [tag |-> "dict",
         results |-> Get(Get(page_props, "resultMatchData", <<>>), "data", <<>>),
         futures |-> Get(Get(page_props, "incomingMatch", <<>>), "data", <<>>),
         squads |-> Get(page_props, "squads", <<>>)]

\* fetch_schedule printed its error message
fetch_schedule_log(r) ==
  IF fetch_schedule(r).tag = "None" THEN <<"fetch_schedule failed">> ELSE <<>>

Payload(page_props) ==
  BResponse(FALSE, Some([valid |-> TRUE, value |-> [props |-> [pageProps |-> page_props]]]))

\* the pageProps of the schedule pages: match 1 as a coming match and match 2,
\* without squads; match 1 played, with both squads; squads only; a match
\* without venue and a squad without name
PageProps ==
  { [resultMatchData |-> [data |-> <<>>], incomingMatch |-> [data |-> <<M1a, M2>>]],
    [resultMatchData |-> [data |-> <<M1b>>], incomingMatch |-> [data |-> <<M2>>],
     squads |-> <<T10, T11>>],
    [squads |-> <<T10b>>],
    [resultMatchData |-> [data |-> <<M3>>], incomingMatch |-> [total |-> 0],
     squads |-> <<T11, TNull>>] }

BResponses ==
  { BResponse(TRUE, None),
    BResponse(FALSE, None),
    BResponse(FALSE, Some([valid |-> FALSE])),
    BResponse(FALSE, Some([valid |-> TRUE, value |-> [buildId |-> "x"]])) }
  \cup {Payload(pp) : pp \in PageProps}

\* Dedup keeping the first object of each id (dict.setdefault)
RECURSIVE DedupFirstInto(_, _)
DedupFirstInto(acc, ms) ==
  IF ms = <<>> THEN acc
  ELSE DedupFirstInto(IF \E i \in 1..Len(acc) : acc[i].id = Head(ms).id THEN acc
                      ELSE Append(acc, Head(ms)),
                      Tail(ms))

Dedup_FirstWins(ms) == DedupFirstInto(<<>>, ms)

\* unique_matches = {m['id']: m for m in all_matches}.values(): a dict keeps
\* the position of a key's first insertion and the value of its last
RECURSIVE DedupInto(_, _)
DedupInto(acc, ms) ==
  IF ms = <<>> THEN acc
  ELSE LET m == Head(ms)
           at == {i \in 1..Len(acc) : acc[i].id = m.id}
       IN  DedupInto(IF at = {} THEN Append(acc, m)
                     ELSE [i \in 1..Len(acc) |-> IF i \in at THEN m ELSE acc[i]],
                     Tail(ms))

Dedup(ms) == DedupInto(<<>>, ms)

(***************************************************************************)
(* The run of a pipeline, step by step.  pc is "connect", then the steps   *)
(* of run(), then "done" (run() returned) or "crashed" (an exception left  *)
(* run()).                                                                 *)
(***************************************************************************)
ConnectOutcomes == {"ok", "refused", "select1_failed"}

\* connect(): psycopg2.connect, cursor(), SELECT 1; every exception is caught,
\* printed and answered with False, and run() then returns.  When the
\* connection was made and SELECT 1 fails, the connection stays open.
ConnectStep(outcome) ==
  /\ pc = "connect"
  /\ connection' = IF outcome = "refused" THEN "None" ELSE "open"
  /\ cursor' = IF outcome = "refused" THEN "None" ELSE "open"
  /\ opens' = IF outcome = "refused" THEN opens ELSE opens + 1
  /\ errlog' = IF outcome = "ok" THEN errlog ELSE Append(errlog, "connect failed")
  /\ pc' = IF outcome = "ok" THEN "create_tables" ELSE "done"
  /\ setup' = IF outcome = "ok" THEN setup ELSE "connect_failed"
  /\ UNCHANGED <<storeVars, histVars, fixedVars, callVars, aVars, bVars>>
  /\ UNCHANGED <<fetches, closes, creates, writes, rollbacks, response>>

\* close(): closes the cursor and the connection that are set
CloseStep ==
  /\ pc = "close"
  /\ cursor' = IF cursor = "None" THEN "None" ELSE "closed"
  /\ connection' = IF connection = "None" THEN "None" ELSE "closed"
  /\ closes' = IF connection = "open" THEN closes + 1 ELSE closes
  /\ pc' = "done"
  /\ UNCHANGED <<storeVars, histVars, fixedVars, callVars, aVars, bVars>>
  /\ UNCHANGED <<fetches, opens, creates, writes, rollbacks, errlog, response, setup>>

\* ---- source A: TVLUpdater.run ----
RangeOf(g) == IF g = "female" THEN female_range ELSE male_range

\* where the for loops begin, from the loop of g on: <<gender, match_id>>, or
\* <<"end", 0>> when no id is left
LoopEntry(g) ==
  IF g = "female" /\ female_range[1] <= female_range[2] THEN <<"female", female_range[1]>>
  ELSE IF male_range[1] <= male_range[2] THEN <<"male", male_range[1]>>
  ELSE <<"end", 0>>

\* LoopNext for range(lo, hi): the last id of each range is left out
LoopNext_Exclusive(g, mid) ==
  IF mid + 1 < RangeOf(g)[2] THEN <<g, mid + 1>>
  ELSE IF g = "female" THEN LoopEntry("male")
  ELSE <<"end", 0>>

\* the position after (g, mid): the next id of range(lo, hi + 1), the male loop
\* after the female loop, the end after the male loop
LoopNext(g, mid) ==
  IF mid < RangeOf(g)[2] THEN <<g, mid + 1>>
  ELSE IF g = "female" THEN LoopEntry("male")
  ELSE <<"end", 0>>

\* the loop variables move to position e
Goto(e) ==
  /\ pc' = IF e[1] = "end" THEN "close" ELSE "fetch"
  /\ gender' = IF e[1] = "end" THEN gender ELSE e[1]
  /\ match_id' = IF e[1] = "end" THEN match_id ELSE e[2]

TVL_connect ==
  /\ prog = "TVL"
  /\ \E outcome \in ConnectOutcomes : ConnectStep(outcome)

\* create_tables(): execute and commit, nothing caught: a failure leaves run()
\* as an exception
TVL_create_tables ==
  /\ prog = "TVL" /\ pc = "create_tables"
  /\ creates' = creates + 1
  /\ \E fault \in Faults :
       IF fault = "none" THEN Goto(LoopEntry("female")) /\ setup' = "ready"
       ELSE pc' = "crashed" /\ setup' = "schema_failed" /\ UNCHANGED <<gender, match_id>>
  /\ UNCHANGED <<storeVars, histVars, fixedVars, callVars, connVars, bVars>>
  /\ UNCHANGED <<soup, total_success, total_failed, requested, sleeps>>
  /\ UNCHANGED <<fetches, opens, closes, writes, rollbacks, errlog, response>>

\* soup = self.fetch_page(match_id, gender)
TVL_fetch_page ==
  /\ prog = "TVL" /\ pc = "fetch"
  /\ \E r \in OriginResponses(origin, match_id, gender) :
       /\ soup' = fetch_page(r)
       /\ errlog' = errlog \o fetch_page_log(r)
       /\ response' = r
  /\ requested' = Append(requested, <<match_id, gender>>)
  /\ fetches' = fetches + 1
  /\ pc' = "process"
  /\ UNCHANGED <<storeVars, histVars, fixedVars, callVars, connVars, bVars>>
  /\ UNCHANGED <<gender, match_id, total_success, total_failed, sleeps>>
  /\ UNCHANGED <<opens, closes, creates, writes, rollbacks, setup>>

\* the body of the loop after the fetch: "if soup", parse_match, "if data",
\* insert_match, the counters
TVL_process ==
  /\ prog = "TVL" /\ pc = "process"
  /\ LET data == IF soup = None THEN None
                 ELSE parse_match_TVL(match_id, gender, The(soup))
     IN  IF data = None
         THEN /\ total_failed' = total_failed + 1
              /\ pc' = "sleep"
              /\ UNCHANGED <<storeVars, histVars, total_success, writes>>
         ELSE \E fault \in Faults :
                LET res == insert_match(The(data), fault) IN
                /\ DoInsertMatch(The(data), res)
                /\ writes' = Append(writes, <<"insert_match", match_id, gender>>)
                /\ total_success' = IF res.raised THEN total_success
                                    ELSE total_success + 1
                /\ pc' = IF res.raised THEN "crashed" ELSE "sleep"
                /\ UNCHANGED total_failed
  /\ UNCHANGED <<fixedVars, callVars, connVars, bVars>>
  /\ UNCHANGED <<gender, match_id, soup, requested, sleeps>>
  /\ UNCHANGED <<fetches, opens, closes, creates, rollbacks, errlog, response, setup>>

\* time.sleep(0.5), and the for statement takes the next id
TVL_sleep ==
  /\ prog = "TVL" /\ pc = "sleep"
  /\ sleeps' = sleeps + 1
  /\ Goto(LoopNext(gender, match_id))
  /\ UNCHANGED <<storeVars, histVars, fixedVars, callVars, connVars, bVars, obsVars>>
  /\ UNCHANGED <<soup, total_success, total_failed, requested>>

TVL_close == prog = "TVL" /\ CloseStep

\* ---- source B: TPVLLocalUpdater.run ----
LastPage == 5

TPVL_connect ==
  /\ prog = "TPVL"
  /\ \E outcome \in ConnectOutcomes : ConnectStep(outcome)

\* TPVL_create_tables in a run() that does not look at what create_tables
\* returns
TPVL_create_tables_IgnoreResult ==
  /\ prog = "TPVL" /\ pc = "create_tables"
  /\ creates' = creates + 1
  /\ \E fault \in Faults :
       /\ pc' = IF fault = "conn_lost" THEN "crashed" ELSE "fetch"
       /\ rollbacks' = IF fault = "none" THEN rollbacks ELSE rollbacks + 1
       /\ errlog' = IF fault = "none" THEN errlog
                    ELSE Append(errlog, "create_tables failed")
       /\ setup' = IF fault = "none" THEN "ready" ELSE "schema_failed"
  /\ UNCHANGED <<storeVars, histVars, fixedVars, callVars, connVars, aVars, bVars>>
  /\ UNCHANGED <<fetches, opens, closes, writes, response>>

\* create_tables(): the except prints, rolls back and returns False, and run()
\* closes and returns; on a lost connection rollback() itself raises
TPVL_create_tables ==
  /\ prog = "TPVL" /\ pc = "create_tables"
  /\ creates' = creates + 1
  /\ \E fault \in Faults :
       /\ pc' = CASE fault = "none" -> "fetch"
                  [] fault = "statement" -> "close"
                  [] fault = "conn_lost" -> "crashed"
       /\ rollbacks' = IF fault = "none" THEN rollbacks ELSE rollbacks + 1
       /\ errlog' = IF fault = "none" THEN errlog
                    ELSE Append(errlog, "create_tables failed")
       /\ setup' = IF fault = "none" THEN "ready" ELSE "schema_failed"
  /\ UNCHANGED <<storeVars, histVars, fixedVars, callVars, connVars, aVars, bVars>>
  /\ UNCHANGED <<fetches, opens, closes, writes, response>>

\* one fetch_schedule call of run() and what run() does with its result.
\* Pages 1..5 are (resultPage, futurePage) = (1,1), (2,1), (3,1), (4,1), (1,2).
\* The tuple (None, None) is truthy, so subscripting it raises TypeError.
TPVL_fetch_schedule ==
  /\ prog = "TPVL" /\ pc = "fetch"
  /\ fetches' = fetches + 1
  /\ \E r \in BResponses :
       LET data == fetch_schedule(r) IN
       /\ errlog' = errlog \o fetch_schedule_log(r)
       /\ response' = r
       /\ IF data.tag = "pair"
          THEN pc' = "crashed" /\ UNCHANGED <<page, all_matches, all_squads>>
          ELSE /\ pc' = IF page = LastPage THEN "dedup" ELSE "fetch"
               /\ page' = page + 1
               /\ all_squads' = IF page = 1 /\ data.tag = "dict" THEN data.squads
                                ELSE all_squads
               /\ all_matches' =
                    IF data.tag # "dict" THEN all_matches
                    ELSE IF page = 1 THEN all_matches \o data.results \o data.futures
                    ELSE IF page = LastPage THEN all_matches \o data.futures
                    ELSE all_matches \o data.results
  /\ UNCHANGED <<storeVars, histVars, fixedVars, callVars, connVars, aVars, unique_matches>>
  /\ UNCHANGED <<opens, closes, creates, writes, rollbacks, setup>>

\* unique_matches = {m['id']: m for m in all_matches}.values()
TPVL_dedup ==
  /\ prog = "TPVL" /\ pc = "dedup"
  /\ unique_matches' = Dedup(all_matches)
  /\ pc' = "upsert_teams"
  /\ UNCHANGED <<storeVars, histVars, fixedVars, callVars, connVars, aVars, obsVars>>
  /\ UNCHANGED <<page, all_matches, all_squads>>

\* "if all_squads: self.upsert_teams(all_squads)"
TPVL_upsert_teams ==
  /\ prog = "TPVL" /\ pc = "upsert_teams"
  /\ IF all_squads = <<>>
     THEN pc' = "upsert_matches"
          /\ UNCHANGED <<storeVars, histVars, writes, rollbacks, errlog>>
     ELSE \E fault \in Faults :
            LET res == upsert_teams(all_squads, fault) IN
            /\ DoUpsertTeams(all_squads, res)
            /\ writes' = Append(writes, <<"upsert_teams", Len(all_squads), "">>)
            /\ rollbacks' = IF res.rollback THEN rollbacks + 1 ELSE rollbacks
            /\ errlog' = errlog \o res.log
            /\ pc' = IF res.raised THEN "crashed" ELSE "upsert_matches"
  /\ UNCHANGED <<fixedVars, callVars, connVars, aVars, bVars>>
  /\ UNCHANGED <<fetches, opens, closes, creates, response, setup>>

\* "if unique_matches: self.upsert_matches(list(unique_matches))"
TPVL_upsert_matches ==
  /\ prog = "TPVL" /\ pc = "upsert_matches"
  /\ IF unique_matches = <<>>
     THEN pc' = "verify"
          /\ UNCHANGED <<storeVars, histVars, writes, rollbacks, errlog>>
     ELSE \E fault \in Faults :
            LET res == upsert_matches(unique_matches, fault) IN
            /\ DoUpsertMatches(unique_matches, res)
            /\ writes' = Append(writes, <<"upsert_matches", Len(unique_matches), "">>)
            /\ rollbacks' = IF res.rollback THEN rollbacks + 1 ELSE rollbacks
            /\ errlog' = errlog \o res.log
            /\ pc' = IF res.raised THEN "crashed" ELSE "verify"
  /\ UNCHANGED <<fixedVars, callVars, connVars, aVars, bVars>>
  /\ UNCHANGED <<fetches, opens, closes, creates, response, setup>>

\* verify_data(): four SELECT COUNT(*), nothing caught
TPVL_verify_data ==
  /\ prog = "TPVL" /\ pc = "verify"
  /\ \E fault \in Faults : pc' = IF fault = "none" THEN "close" ELSE "crashed"
  /\ UNCHANGED <<storeVars, histVars, fixedVars, callVars, connVars, aVars, bVars, obsVars>>

TPVL_close == prog = "TPVL" /\ CloseStep

(***************************************************************************)
(* Spec: one run of either pipeline.  Source A runs over the first         *)
(* RangeLen ids of each of its two ranges, against an origin that may      *)
(* answer anything; the database is empty or holds the squads an earlier   *)
(* run of source B wrote.                                                  *)
(***************************************************************************)
RangeLen == 2

EarlierTeams ==
  ApplyTeams({}, << <<T10.id, T10.name, T10.altName, T10.logoUrl, 0>>,
                    <<T11.id, T11.name, T11.altName, T11.logoUrl, 0>> >>, 0)

Init ==
  /\ InitHist /\ InitObs
  /\ tvl_matches = {} /\ tvl_seq = 1 /\ tpvl_matches = {}
  /\ \/ tpvl_teams = {} /\ now = 0
     \/ tpvl_teams = EarlierTeams /\ now = 1
  /\ InitObject(<<female_range_TVL[1], female_range_TVL[1] + RangeLen - 1>>,
                <<male_range_TVL[1], male_range_TVL[1] + RangeLen - 1>>)
  /\ prog \in {"TVL", "TPVL"} /\ pc = "connect" /\ origin = "any"
  /\ NoParserCall

Next ==
  \/ TVL_connect \/ TVL_create_tables \/ TVL_fetch_page \/ TVL_process
  \/ TVL_sleep \/ TVL_close
  \/ TPVL_connect \/ TPVL_create_tables \/ TPVL_fetch_schedule \/ TPVL_dedup
  \/ TPVL_upsert_teams \/ TPVL_upsert_matches \/ TPVL_verify_data \/ TPVL_close

Spec == Init /\ [][Next]_vars

(***************************************************************************)
(* SpecEnum: one run of source A over its two id ranges as written in the  *)
(* code, against an origin whose answer is fixed by the id.                *)
(***************************************************************************)
InitEnum ==
  /\ InitStore /\ InitHist /\ InitObs
  /\ InitObject(female_range_TVL, male_range_TVL)
  /\ prog = "TVL" /\ pc = "connect"
  /\ origin \in {"down", "up", "mixed", "bad_date"}
  /\ NoParserCall

NextEnum ==
  \/ TVL_connect \/ TVL_create_tables \/ TVL_fetch_page \/ TVL_process
  \/ TVL_sleep \/ TVL_close

SpecEnum == InitEnum /\ [][NextEnum]_vars

(***************************************************************************)
(* Claims about the runs (checked under Spec, C10 under SpecEnum)          *)
(***************************************************************************)
\* run() of source B has built unique_matches
Deduped == prog = "TPVL" /\ page > LastPage /\ pc # "dedup"

\* the last position of id in all_matches
LastIndexOf(id) ==
  CHOOSE j \in 1..Len(all_matches) :
    /\ all_matches[j].id = id
    /\ \A k \in (j + 1)..Len(all_matches) : all_matches[k].id # id

\* C3: the merged collection has exactly one entry per external match id
\* fetched in the run, the entry is the whole object met last in fetch order,
\* and this collection is what upsert_matches receives.
C3_Dedup ==
  Deduped =>
    /\ \A i, j \in 1..Len(unique_matches) :
         i # j => unique_matches[i].id # unique_matches[j].id
    /\ {unique_matches[i].id : i \in 1..Len(unique_matches)}
         = {all_matches[j].id : j \in 1..Len(all_matches)}
    /\ \A i \in 1..Len(unique_matches) :
         unique_matches[i] = all_matches[LastIndexOf(unique_matches[i].id)]
    /\ lastCall.op = "upsert_matches" => lastCall.input = unique_matches

\* C3 witness: an id was fetched in two different versions, the later one is
\* not the first, and the merged collection of two matches went to the sink
C3_Witness ==
  /\ Deduped /\ lastCall.op = "upsert_matches" /\ Len(unique_matches) = 2
  /\ \E i, j \in 1..Len(all_matches) :
       /\ i < j /\ all_matches[i].id = all_matches[j].id
       /\ all_matches[i] # all_matches[j]
       /\ j = LastIndexOf(all_matches[j].id)

\* no write of the run was issued twice
NoRetry == \A i, j \in 1..Len(writes) : i # j => writes[i] # writes[j]

\* C5 (as claimed): whenever a write of a run failed, the transaction was
\* rolled back by the program, the error was printed, and the write was not
\* issued again.
C5_FailedWriteHandled ==
  (prog \in {"TVL", "TPVL"} /\ lastCall.op # "none" /\ ~lastCall.committed
     /\ WellFormedBatch) =>
    /\ lastCall.rollback /\ lastCall.logged
    /\ Tables = before
    /\ NoRetry

\* the answers for which the claim expects "no record"
FetchFailed(r) == r.raises \/ r.status_code # 200 \/ r.content_len < 10000

\* C6: a request of source A that raises, answers with a status other than
\* 200 or with a body under 10000 bytes makes fetch_page return None without
\* raising; the iteration then leaves the store as it is, adds exactly one to
\* the failure counter, sleeps, and the loop goes on with the next id.
C6_FetchFailureNonFatal ==
  [][ /\ (prog = "TVL" /\ pc = "fetch") =>
           /\ pc' = "process"
           /\ FetchFailed(response') => soup' = None
           /\ UNCHANGED <<storeVars, total_success, total_failed>>
      /\ (prog = "TVL" /\ pc = "process" /\ FetchFailed(response)) =>
           /\ UNCHANGED <<storeVars, total_success>>
           /\ total_failed' = total_failed + 1
           /\ pc' = "sleep"
      /\ (prog = "TVL" /\ pc = "sleep") =>
           \/ pc' = "fetch" /\ gender' = gender /\ match_id' = match_id + 1
           \/ /\ pc' = "fetch" /\ gender = "female" /\ gender' = "male"
              /\ match_id = female_range[2] /\ match_id' = male_range[1]
           \/ pc' = "close" /\ gender = "male" /\ match_id = male_range[2]
    ]_vars

\* C6 witness: the first request was answered with a short body, the failure
\* was counted, nothing was written, and the second request has been made
C6_Witness ==
  /\ prog = "TVL" /\ pc = "process" /\ Len(requested) = 2
  /\ total_failed = 1 /\ total_success = 0 /\ tvl_matches = {}
  /\ errlog = <<>>
  /\ response.status_code = 200 /\ response.content_len < 10000

\* connect() returned True in this run
ConnectSucceeded == setup \in {"schema_failed", "ready"}

\* C7 (as claimed): in a run in which connect() succeeds the connection and
\* the cursor are opened once and, however the run ends, closed once.
C7_ClosedOnEveryPath ==
  /\ opens <= 1 /\ closes <= 1
  /\ (pc \in {"done", "crashed"} /\ ConnectSucceeded) =>
       /\ opens = 1 /\ closes = 1
       /\ connection = "closed" /\ cursor = "closed"

\* C8: create_tables runs at most once, and has run (successfully) before any
\* page is fetched or any record is written; when connect() fails the run
\* returns at once, when create_tables fails the run ends (source A by the
\* exception, source B by close and return), in both cases with no page
\* fetched and no record written.
C8_SetupFirst ==
  /\ creates <= 1
  /\ (fetches > 0 \/ writes # <<>> \/ lastCall.op # "none") =>
       (setup = "ready" /\ creates = 1)
  /\ setup = "connect_failed" => (pc = "done" /\ creates = 0)
  /\ setup = "schema_failed" =>
       /\ creates = 1
       /\ pc \in (IF prog = "TVL" THEN {"crashed"} ELSE {"close", "done", "crashed"})
  /\ setup # "ready" =>
       /\ fetches = 0 /\ writes = <<>> /\ requested = <<>>
       /\ Tables = [tvl |-> {}, teams |-> tpvl_teams, matches |-> {}]
       /\ lastCall = NoCall

\* C8 witness: create_tables of source B failed, and the run closed the
\* connection and returned without a fetch
C8_Witness ==
  /\ prog = "TPVL" /\ setup = "schema_failed" /\ pc = "done"
  /\ closes = 1 /\ fetches = 0 /\ rollbacks = 1

\* the ids of the rows of tpvl_teams, and NULL
TeamRefs == {Some(r.id) : r \in tpvl_teams} \cup {None}

\* a raw match object refers to a squad that is not in tpvl_teams
Unresolved(m) == m.homeSquadId \notin TeamRefs \/ m.awaySquadId \notin TeamRefs

\* C9 (as claimed): when upsert_matches is about to run, every team id a match
\* of the batch refers to is in the team table.
C9_NoUnresolvedAttempt ==
  (prog = "TPVL" /\ pc = "upsert_matches") =>
    \A i \in 1..Len(unique_matches) : ~Unresolved(unique_matches[i])

\* C9 (the part that holds): in a run the team batch, when there is one, is
\* upserted before the match batch and never after it; a match batch with an
\* unresolved team reference is refused as a whole by the foreign keys, so
\* that no row of tpvl_matches ever refers to a team that is not in tpvl_teams.
C9_TeamsFirstAndReferential ==
  /\ \A r \in tpvl_matches : r.home_team_id \in TeamRefs /\ r.away_team_id \in TeamRefs
  /\ prog = "TPVL" =>
       /\ \A i, j \in 1..Len(writes) :
            (writes[i][1] = "upsert_matches" /\ writes[j][1] = "upsert_teams") => j < i
       /\ (lastCall.op = "upsert_matches" /\ all_squads # <<>>) =>
            (prevCall.op = "upsert_teams" /\ prevCall.input = all_squads)
       /\ (lastCall.op = "upsert_matches" /\ lastCall.committed) =>
            \A i \in 1..Len(lastCall.input) : ~Unresolved(lastCall.input[i])
       /\ (lastCall.op = "upsert_matches" /\ WellFormedBatch /\ lastCall.fault = "none"
             /\ \E i \in 1..Len(lastCall.input) : Unresolved(lastCall.input[i])) =>
            (~lastCall.committed /\ lastCall.rollback /\ tpvl_matches = before.matches)

\* C9 witness: the squads of the first page were upserted, and the match batch
\* was still sent with a reference to a squad that is not in tpvl_teams
C9_Witness ==
  /\ prog = "TPVL" /\ pc = "verify"
  /\ prevCall.op = "upsert_teams" /\ prevCall.committed
  /\ lastCall.op = "upsert_matches" /\ lastCall.fault = "none" /\ WellFormedBatch
  /\ \E i \in 1..Len(lastCall.input) : Unresolved(lastCall.input[i])
  /\ ~lastCall.committed /\ lastCall.rollback

\* the run of source A went through both loops
LoopsCompleted == prog = "TVL" /\ setup = "ready" /\ pc \in {"close", "done"}

\* the (match_id, gender) pairs of the two ranges
RangeKeys ==
  {<<mid, "female">> : mid \in female_range[1]..female_range[2]}
    \cup {<<mid, "male">> : mid \in male_range[1]..male_range[2]}

\* C10 (as claimed): a run that completes its loops has issued exactly 126
\* requests.
C10_Requests126 == LoopsCompleted => Len(requested) = 126

\* C10 (amended): a run that completes its loops has issued exactly 114
\* requests (51 female ids 228..278, 63 male ids 264..326), one for each
\* (match_id, gender) of the two ranges; no pair is requested twice in a run;
\* and every request is followed by one sleep before the next request.
C10_Enumeration ==
  prog = "TVL" =>
    /\ LoopsCompleted =>
         /\ Len(requested) = 114 /\ fetches = 114
         /\ {requested[i] : i \in 1..Len(requested)} = RangeKeys
         /\ Cardinality({k \in RangeKeys : k[2] = "female"}) = 51
         /\ Cardinality({k \in RangeKeys : k[2] = "male"}) = 63
         /\ total_success + total_failed = 114
    /\ \A i, j \in 1..Len(requested) : i # j => requested[i] # requested[j]
    /\ pc = "fetch" => sleeps = Len(requested)
    /\ pc \in {"process", "sleep"} => sleeps = Len(requested) - 1
    /\ LoopsCompleted => sleeps = Len(requested)

\* C10 witness: the run over both ranges returned, with failed and successful
\* requests among the 114
C10_Witness ==
  /\ prog = "TVL" /\ pc = "done" /\ closes = 1
  /\ Len(requested) = 114 /\ sleeps = 114
  /\ total_failed > 0 /\ total_success > 0

(***************************************************************************)
(* SpecParse: parse_score_and_status (source A) and parse_match (source B) *)
(* called on their own, on any of the pages and raw match objects below    *)
(***************************************************************************)
\* texts of a ".big_score" tag, or no such tag: an integer, an integer inside
\* white space, a negative integer, a dash, an empty tag
BigCells ==
  {None, Some(<<"3">>), Some(<<" ", "1", "0", "\n">>), Some(<<"-", "1">>),
   Some(<<"-">>), Some(<<>>)}

\* the "#q{i}_home" / "#q{i}_away" cells of one set, <<home, away>>: a set that
\* was played, one with white space around the digits, one without the home
\* cell, one without the away cell, an empty home cell, a white-space away
\* cell, a home text that is not all digits
ColPlayed    == <<Some(<<"2", "5">>), Some(<<"2", "3">>)>>
ColPadded    == <<Some(<<" ", "1", "5", "\n">>), Some(<<"7">>)>>
ColNoHome    == <<None, Some(<<"2", "3">>)>>
ColNoAway    == <<Some(<<"2", "5">>), None>>
ColEmptyHome == <<Some(<<>>), Some(<<"2", "3">>)>>
ColBlankAway == <<Some(<<"2", "5">>), Some(<<" ">>)>>
ColNonDigit  == <<Some(<<"2", "a">>), Some(<<"2", "3">>)>>
Columns ==
  {ColPlayed, ColPadded, ColNoHome, ColNoAway, ColEmptyHome, ColBlankAway, ColNonDigit}

\* the five sets of a page: any cells for the first two sets, fewer choices for
\* the later ones
ColumnChoices ==
  {<<c1, c2, c3, c4, c5>> :
     c1 \in Columns, c2 \in Columns, c3 \in {ColPlayed, ColNoAway, ColNonDigit},
     c4 \in {ColPadded, ColEmptyHome}, c5 \in {ColPlayed, ColNoHome}}

\* the ".match_table" with these sets: the home cells in the first row, the
\* away cells in the second
TableOf(cols) ==
  Some([tbody |-> Some(<<
    Row(<<"X">>, [i \in 1..5 |-> cols[i][1]], NoCells),
    Row(<<"Y">>, NoCells, [i \in 1..5 |-> cols[i][2]]) >>)])

\* no table, a table without tbody, a table of one row, and the tables above
MatchTables ==
  {None, Some([tbody |-> None]),
   Some([tbody |-> Some(<<Row(<<"X">>, [i \in 1..5 |-> ColPlayed[1]], NoCells)>>)])}
    \cup {TableOf(cols) : cols \in ColumnChoices}

ScorePages ==
  {[match_table |-> t, game_header |-> None,
    badge |-> Some(<<"yi", "wan", "sai">>), big_home |-> h, big_away |-> a] :
     t \in MatchTables, h \in BigCells, a \in BigCells}

\* the entries of squadMatchResults: the home squad (10), the away squad (11)
\* or another squad (99), with a round count or a null
ResultEntries ==
  {[squadId |-> Some(sq), wonRounds |-> w] : sq \in {10, 11, 99}, w \in {Some(0), Some(3), None}}

MaxResults == 2

\* the raw match objects: squad 10 at home against squad 11, with every list
\* of at most MaxResults entries, with a null list, with three entries, without
\* the key, and an object whose matchedAt cannot be parsed
RawMatches ==
  {[M1a EXCEPT !.squadMatchResults = Some(rs)] :
     rs \in UNION {[1..k -> ResultEntries] : k \in 0..MaxResults}}
    \cup {[M1a EXCEPT !.squadMatchResults = None], M1b, M2, M4}

InitParse ==
  /\ InitStore /\ InitHist /\ InitObs
  /\ InitObject(female_range_TVL, male_range_TVL)
  /\ prog = "parse" /\ origin = "none"
  /\ \/ pc = "parse_score_and_status" /\ arg \in ScorePages
     \/ pc = "parse_match" /\ arg \in RawMatches
  /\ returned = None

\* status, home_score, away_score, set_scores_str = self.parse_score_and_status(soup)
Call_parse_score_and_status ==
  /\ prog = "parse" /\ pc = "parse_score_and_status"
  /\ returned' = Some([of |-> "parse_score_and_status", raised |-> FALSE,
                       value |-> parse_score_and_status(arg)])
  /\ pc' = "returned"
  /\ UNCHANGED <<storeVars, histVars, fixedVars, connVars, aVars, bVars, obsVars, arg>>

\* self.parse_match(match): the value tuple, or the KeyError / ValueError
Call_parse_match ==
  /\ prog = "parse" /\ pc = "parse_match"
  /\ returned' = IF ParseMatchRaises(arg)
                 THEN Some([of |-> "parse_match", raised |-> TRUE, value |-> None])
                 ELSE Some([of |-> "parse_match", raised |-> FALSE,
                            value |-> parse_match_TPVL(arg, now)])
  /\ pc' = "returned"
  /\ UNCHANGED <<storeVars, histVars, fixedVars, connVars, aVars, bVars, obsVars, arg>>

NextParse == Call_parse_score_and_status \/ Call_parse_match

SpecParse == InitParse /\ [][NextParse]_vars

(***************************************************************************)
(* Claims about the parsers (checked under SpecParse)                      *)
(***************************************************************************)
\* parse_score_and_status has returned
ScoreReturned ==
  prog = "parse" /\ returned # None /\ The(returned).of = "parse_score_and_status"

\* the text of a big-score cell is there and int() accepts it
IntParseable(cell) == cell # None /\ IntOf(The(cell)) # None

\* C11 (as claimed): parse_score_and_status returns a home_score and an
\* away_score that are both non-null when both big-score cells are present
\* and both texts are integers, and both null in every other case.
C11_BothOrNeither ==
  ScoreReturned =>
    LET home_score == The(returned).value[2]
        away_score == The(returned).value[3]
    IN  IF IntParseable(arg.big_home) /\ IntParseable(arg.big_away)
        THEN home_score # None /\ away_score # None
        ELSE home_score = None /\ away_score = None

\* C11 witness: the home text is an integer, the away text is not, and the
\* returned home_score is that integer while away_score is null
C11_Witness ==
  /\ ScoreReturned
  /\ IntParseable(arg.big_home) /\ arg.big_away # None /\ ~IntParseable(arg.big_away)
  /\ The(returned).value[2] = Some(3) /\ The(returned).value[3] = None

\* the rows of the page's match table, <<>> when there is no table or no tbody
RowsOfPage(sp) ==
  IF sp.match_table = None THEN <<>> ELSE TableRows(The(sp.match_table))

\* the trimmed text of a cell is non-empty and all digits
DigitCell(cell) ==
  /\ cell # None
  /\ Strip(The(cell)) # <<>>
  /\ \A k \in 1..Len(Strip(The(cell))) : Strip(The(cell))[k] \in Digits

\* both cells of set i are there and hold digits
SetIncluded(sp, i) ==
  /\ Len(RowsOfPage(sp)) >= 2
  /\ DigitCell(RowsOfPage(sp)[1].q_home[i])
  /\ DigitCell(RowsOfPage(sp)[2].q_away[i])

\* the included set indices of a page, and the k-th of them in ascending order
IncludedSets(sp) == {i \in 1..5 : SetIncluded(sp, i)}
NthIncluded(sp, k) ==
  CHOOSE i \in IncludedSets(sp) : Cardinality({j \in IncludedSets(sp) : j < i}) = k - 1

\* "{home}-{away}" of set i
SetText(sp, i) ==
  Strip(The(RowsOfPage(sp)[1].q_home[i])) \o <<"-">>
    \o Strip(The(RowsOfPage(sp)[2].q_away[i]))

\* C12: for the set indices 1..5, set i is in the output of
\* parse_score_and_status exactly when its home and its away cell both exist
\* and their trimmed texts are non-empty and all digits; the output is the
\* "{home}-{away}" texts of these sets in ascending index order, joined by
\* ", ", and null when there is no such set.
C12_SetScores ==
  ScoreReturned =>
    LET n == Cardinality(IncludedSets(arg))
        parts == [k \in 1..n |-> SetText(arg, NthIncluded(arg, k))]
    IN  The(returned).value[4] = IF n = 0 THEN None ELSE Some(JoinComma(parts))

\* C12 witness: set 2 has both cells but a home text that is not a number,
\* set 5 has no home cell, and the output holds the sets 1, 3 and 4
C12_Witness ==
  /\ ScoreReturned
  /\ IncludedSets(arg) = {1, 3, 4}
  /\ RowsOfPage(arg)[1].q_home[2] # None /\ RowsOfPage(arg)[2].q_away[2] # None
  /\ The(returned).value[4] =
       Some(<<"2", "5", "-", "2", "3", ",", " ", "2", "5", "-", "2", "3", ",", " ",
              "1", "5", "-", "7">>)

\* parse_match has returned a value tuple
MatchReturned ==
  /\ prog = "parse" /\ returned # None
  /\ The(returned).of = "parse_match" /\ ~The(returned).raised

\* the round-result collection of a raw match object, <<>> when the key is
\* missing or null
RoundResults(m) ==
  IF "squadMatchResults" \in DOMAIN m /\ m.squadMatchResults # None
  THEN The(m.squadMatchResults) ELSE <<>>

\* the positions of the entries of squad sq, and the round count of the last
EntriesOf(m, sq) == {k \in 1..Len(RoundResults(m)) : RoundResults(m)[k].squadId = sq}
WonRoundsOf(m, sq) ==
  IF EntriesOf(m, sq) = {} THEN None
  ELSE RoundResults(m)[CHOOSE k \in EntriesOf(m, sq) :
                         \A j \in EntriesOf(m, sq) : j <= k].wonRounds

NoPayload(r) == ~r.raises /\ r.script = None

\* run() of source B went on after its most recent fetch_schedule call: page
\* counts the calls that returned to the loop, fetches the calls made
WentOnAfterFetch == fetches = page - 1

\* C14 (as claimed): when a schedule page is received but holds no embedded
\* JSON payload, fetch_schedule reports "no data" and run() goes on with the
\* remaining pages and writes; no exception leaves run() at that page.
C14_NoPayloadPageSkipped ==
  (prog = "TPVL" /\ fetches > 0 /\ NoPayload(response)) =>
    WentOnAfterFetch

\* C14 witness: the first page came without payload, the run ended there by
\* the exception, and the connection was left open
C14_Witness ==
  /\ prog = "TPVL" /\ pc = "crashed" /\ setup = "ready"
  /\ fetches = 1 /\ page = 1 /\ NoPayload(response)
  /\ fetch_schedule(response).tag = "pair"
  /\ all_matches = <<>> /\ writes = <<>>
  /\ closes = 0 /\ connection = "open"

====
